---- MODULE Spec2Model ----
(***************************************************************************)
(* Branch-selection model of libcerf's err_fcts.c: cerf, cerfc, cdawson,   *)
(* cerfi, erfi and voigt.                                                  *)
(*                                                                         *)
(* A real R is an IEEE-style value: NaN, a signed infinity, a signed zero  *)
(* or a finite nonzero s * m * 10^e with a mantissa of Digits decimal      *)
(* digits, rounded to nearest-even after every operation.  The value of a  *)
(* library call whose number the model does not compute (exp, erf, the     *)
(* Faddeeva kernels, a series) is a term naming the call and its           *)
(* arguments ("sym"), with a syntactic sign in front.                      *)
(***************************************************************************)
EXTENDS Integers, Sequences, FiniteSets, TLC

VARIABLES pc, fn, x, y, sigma, gamma, ret

vars == <<pc, fn, x, y, sigma, gamma, ret>>

\* Decimal digits of a mantissa.
Digits == 3

(***************************************************************************)
(* The real type R and its arithmetic                                      *)
(***************************************************************************)

RECURSIVE Pow10(_)
Pow10(n) == IF n = 0 THEN 1 ELSE 10 * Pow10(n - 1)

RECURSIVE NumDigits(_)
NumDigits(m) == IF m < 10 THEN 1 ELSE 1 + NumDigits(m \div 10)

NaN == [k |-> "nan", s |-> 1]

Inf == [k |-> "inf", s |-> 1]

Zero(s) == [k |-> "zero", s |-> s]

Fin(s, m, e) == [k |-> "fin", s |-> s, m |-> m, e |-> e]

\* A term: the value of op applied to args, times the sign s.
Sym(s, op, args) == [k |-> "sym", s |-> s, op |-> op, args |-> args]

\* s * m * 10^e for an integer m > 0, rounded to Digits digits (half to even).
Round(s, m, e) ==
    LET d == NumDigits(m) IN
    IF d <= Digits
    THEN Fin(s, m * Pow10(Digits - d), e - (Digits - d))
    ELSE LET sh   == d - Digits
             q    == m \div Pow10(sh)
             r    == m % Pow10(sh)
             half == 5 * Pow10(sh - 1)
             q1   == IF r > half \/ (r = half /\ q % 2 = 1) THEN q + 1 ELSE q
         IN  IF q1 = Pow10(Digits)
             THEN Fin(s, Pow10(Digits - 1), e + sh + 1)
             ELSE Fin(s, q1, e + sh)

\* The literal m * 10^e of the source text.
Dec(m, e) == Round(1, m, e)

isnan(a) == a.k = "nan"

Neg(a) == IF isnan(a) THEN a ELSE [a EXCEPT !.s = -a.s]

fabs(a) == IF isnan(a) THEN a ELSE [a EXCEPT !.s = 1]

\* -1, 0, 1: the sign of a value that is not NaN (both zeros have sign 0).
Sgn(a) == IF a.k = "zero" THEN 0 ELSE a.s

\* Comparison of the magnitudes of two nonzero values, neither NaN.
CmpMag(a, b) ==
    IF a.k = "inf" THEN (IF b.k = "inf" THEN 0 ELSE 1)
    ELSE IF b.k = "inf" THEN -1
    ELSE IF a.e # b.e THEN (IF a.e > b.e THEN 1 ELSE -1)
    ELSE IF a.m # b.m THEN (IF a.m > b.m THEN 1 ELSE -1)
    ELSE 0

Cmp(a, b) ==
    IF Sgn(a) # Sgn(b) THEN (IF Sgn(a) < Sgn(b) THEN -1 ELSE 1)
    ELSE IF Sgn(a) = 0 THEN 0
    ELSE Sgn(a) * CmpMag(a, b)

\* The C comparisons: every one of them is false when an operand is NaN.
Lt(a, b) == ~isnan(a) /\ ~isnan(b) /\ Cmp(a, b) < 0

Gt(a, b) == ~isnan(a) /\ ~isnan(b) /\ Cmp(a, b) > 0

Ge(a, b) == ~isnan(a) /\ ~isnan(b) /\ Cmp(a, b) >= 0

Eq(a, b) == ~isnan(a) /\ ~isnan(b) /\ Cmp(a, b) = 0

Mul(a, b) ==
    IF isnan(a) \/ isnan(b) THEN NaN
    ELSE IF a.k = "sym" \/ b.k = "sym"
         THEN Sym(a.s * b.s, "mul", <<fabs(a), fabs(b)>>)
    ELSE IF {a.k, b.k} = {"inf", "zero"} THEN NaN
    ELSE IF "inf" \in {a.k, b.k} THEN [Inf EXCEPT !.s = a.s * b.s]
    ELSE IF "zero" \in {a.k, b.k} THEN Zero(a.s * b.s)
    ELSE Round(a.s * b.s, a.m * b.m, a.e + b.e)

Add(a, b) ==
    IF isnan(a) \/ isnan(b) THEN NaN
    ELSE IF a.k = "sym" \/ b.k = "sym" THEN Sym(1, "add", <<a, b>>)
    ELSE IF a.k = "inf" /\ b.k = "inf" THEN (IF a.s = b.s THEN a ELSE NaN)
    ELSE IF a.k = "inf" THEN a
    ELSE IF b.k = "inf" THEN b
    ELSE IF a.k = "zero" /\ b.k = "zero" THEN Zero(IF a.s = b.s THEN a.s ELSE 1)
    ELSE IF a.k = "zero" THEN b
    ELSE IF b.k = "zero" THEN a
    ELSE LET hi  == IF a.e >= b.e THEN a ELSE b
             lo  == IF a.e >= b.e THEN b ELSE a
             gap == hi.e - lo.e
             v   == hi.s * hi.m * Pow10(gap) + lo.s * lo.m
         IN  IF gap > Digits + 1 THEN hi
             ELSE IF v = 0 THEN Zero(1)
             ELSE Round(IF v > 0 THEN 1 ELSE -1, IF v > 0 THEN v ELSE -v, lo.e)

Sub(a, b) == Add(a, Neg(b))

\* A quotient is kept as a term.
Div(a, b) ==
    IF isnan(a) \/ isnan(b) THEN NaN
    ELSE Sym(a.s * b.s, "div", <<fabs(a), fabs(b)>>)

\* A complex number, and complex arithmetic as C defines it.
CNUM(re, im) == [re |-> re, im |-> im]

CAdd(a, b) == CNUM(Add(a.re, b.re), Add(a.im, b.im))

CSub(a, b) == CNUM(Sub(a.re, b.re), Sub(a.im, b.im))

CNeg(a) == CNUM(Neg(a.re), Neg(a.im))

CMul(a, b) ==
    CNUM(Sub(Mul(a.re, b.re), Mul(a.im, b.im)),
         Add(Mul(a.re, b.im), Mul(a.im, b.re)))

\* real * complex, real + complex, real - complex, complex - real
RMul(r, a) == CNUM(Mul(r, a.re), Mul(r, a.im))

RAdd(r, a) == CNUM(Add(r, a.re), a.im)

RSub(r, a) == CNUM(Sub(r, a.re), Neg(a.im))

CSubR(a, r) == CNUM(Sub(a.re, r), a.im)

(***************************************************************************)
(* Library functions and kernels called by err_fcts.c                      *)
(***************************************************************************)

One == Dec(1, 0)

Two == Dec(2, 0)

\* exp of <math.h>.
pnfft_exp(a) ==
    IF isnan(a) THEN NaN
    ELSE IF a.k = "inf" THEN (IF a.s = 1 THEN Inf ELSE Zero(1))
    ELSE IF a.k = "zero" THEN One
    ELSE Sym(1, "exp", <<a>>)

\* erf of <math.h>: odd, erf(+-0) = +-0, erf(+-Inf) = +-1.
erf(a) ==
    IF isnan(a) THEN NaN
    ELSE IF a.k = "zero" THEN a
    ELSE IF a.k = "inf" THEN [One EXCEPT !.s = a.s]
    ELSE Sym(a.s, "erf", <<fabs(a)>>)

\* cos and sin of <math.h>.
pnfft_cos(a) ==
    IF isnan(a) \/ a.k = "inf" THEN NaN
    ELSE IF a.k = "zero" THEN One
    ELSE Sym(1, "cos", <<fabs(a)>>)

pnfft_sin(a) ==
    IF isnan(a) \/ a.k = "inf" THEN NaN
    ELSE IF a.k = "zero" THEN a
    ELSE Sym(a.s, "sin", <<fabs(a)>>)

\* Im w(x) on the real axis: odd, +-0 at +-0, -> +-0 as x -> +-Inf.
im_w_of_x(a) ==
    IF isnan(a) THEN NaN
    ELSE IF a.k = "zero" THEN a
    ELSE IF a.k = "inf" THEN Zero(a.s)
    ELSE Sym(a.s, "im_w_of_x", <<fabs(a)>>)

\* erfcx(x) = exp(x^2) erfc(x): 1 at 0, -> 0 as x -> +Inf, -> Inf as x -> -Inf.
erfcx(a) ==
    IF isnan(a) THEN NaN
    ELSE IF a.k = "zero" THEN One
    ELSE IF a.k = "inf" THEN (IF a.s = 1 THEN Zero(1) ELSE Inf)
    ELSE Sym(1, "erfcx", <<a>>)

\* The value of a formula of the source that the model does not evaluate:
\* NaN as soon as one of its inputs is NaN, else the term op(args).
Form(op, args) ==
    IF \E i \in DOMAIN args : isnan(args[i]) THEN NaN ELSE Sym(1, op, args)

\* Faddeeva's w(z), z = a + ib.
w_of_z(a, b) == CNUM(Form("re_w_of_z", <<a, b>>), Form("im_w_of_z", <<a, b>>))

\* cexp of <complex.h>: exp(a) * (cos b + i sin b).
pnfft_cexp(a, b) == RMul(pnfft_exp(a), CNUM(pnfft_cos(b), pnfft_sin(b)))

\* One call of a kernel, as recorded in a result.
Kernel(f, args) == [f |-> f, args |-> args]

\* What a call returns: the return statement taken, the value, the arguments
\* of the exponentials evaluated on the way, the kernel calls made, and for a
\* formula in exp(-z^2) * w(..) the pair (Re(-z^2), Im(-z^2)) it uses.
Res(branch, re, im, exps, kern, efac) ==
    [branch |-> branch, re |-> re, im |-> im,
     exps |-> exps, kern |-> kern, efac |-> efac]

(***************************************************************************)
(* Literals of err_fcts.c                                                  *)
(***************************************************************************)

spi2 == Dec(886226925, -9)

c720 == Dec(720, 0)

c750 == Dec(750, 0)

c8e_2 == Dec(8, -2)

c1e_2 == Dec(1, -2)

c5e_3 == Dec(5, -3)

c25e_6 == Dec(25, -6)

c1600 == Dec(1600, 0)

c25e14 == Dec(25, 14)

\* Re(-z^2) and Im(-z^2) as the three dispatchers compute them.
mRe_z2(X, Y) == Mul(Sub(Y, X), Add(X, Y))

mIm_z2(X, Y) == Mul(Mul(Neg(Two), X), Y)

(***************************************************************************)
(* cerf: the condition under which each return statement is reached, and   *)
(* what it returns                                                         *)
(***************************************************************************)

cerfBranches ==
    {"real_axis", "imag_axis", "underflow", "taylor", "taylor_erfi",
     "nan", "mirror_pos", "mirror_neg"}

\* Past both axis tests and the underflow test.
cerf_general(X, Y) ==
    /\ ~Eq(Y, Zero(1))
    /\ ~Eq(X, Zero(1))
    /\ ~Lt(mRe_z2(X, Y), Neg(c750))

cerf_real_axis_guard(X, Y) == Eq(Y, Zero(1))

\* Variant: the x == 0 test is not preceded by the y == 0 test.
cerf_imag_axis_guard_first(X, Y) == Eq(X, Zero(1))

cerf_imag_axis_guard(X, Y) == ~Eq(Y, Zero(1)) /\ Eq(X, Zero(1))

cerf_underflow_guard(X, Y) ==
    /\ ~Eq(Y, Zero(1))
    /\ ~Eq(X, Zero(1))
    /\ Lt(mRe_z2(X, Y), Neg(c750))

cerf_taylor_guard(X, Y) ==
    /\ cerf_general(X, Y)
    /\ \/ Ge(X, Zero(1)) /\ Lt(X, c8e_2) /\ Lt(fabs(Y), c1e_2)
       \/ ~Ge(X, Zero(1)) /\ Gt(X, Neg(c8e_2)) /\ Lt(fabs(Y), c1e_2)

\* Variant: goto taylor_erfi without the test of x against 5e-3.
cerf_taylor_erfi_guard_anyx(X, Y) ==
    /\ cerf_general(X, Y)
    /\ \/ /\ Ge(X, Zero(1)) /\ Lt(X, c8e_2) /\ ~Lt(fabs(Y), c1e_2)
          /\ Lt(fabs(mIm_z2(X, Y)), c5e_3)
       \/ /\ ~Ge(X, Zero(1)) /\ Gt(X, Neg(c8e_2)) /\ ~Lt(fabs(Y), c1e_2)
          /\ Lt(fabs(mIm_z2(X, Y)), c5e_3)

cerf_taylor_erfi_guard(X, Y) ==
    /\ cerf_general(X, Y)
    /\ \/ /\ Ge(X, Zero(1)) /\ Lt(X, c8e_2) /\ ~Lt(fabs(Y), c1e_2)
          /\ Lt(fabs(mIm_z2(X, Y)), c5e_3) /\ Lt(X, c5e_3)
       \/ /\ ~Ge(X, Zero(1)) /\ Gt(X, Neg(c8e_2)) /\ ~Lt(fabs(Y), c1e_2)
          /\ Lt(fabs(mIm_z2(X, Y)), c5e_3) /\ Gt(X, Neg(c5e_3))

cerf_nan_guard(X, Y) ==
    /\ cerf_general(X, Y)
    /\ ~Ge(X, Zero(1)) /\ ~Gt(X, Neg(c8e_2)) /\ isnan(X)

cerf_mirror_pos_guard(X, Y) ==
    /\ cerf_general(X, Y)
    /\ Ge(X, Zero(1))
    /\ ~(/\ Lt(X, c8e_2)
         /\ \/ Lt(fabs(Y), c1e_2)
            \/ Lt(fabs(mIm_z2(X, Y)), c5e_3) /\ Lt(X, c5e_3))

cerf_mirror_neg_guard(X, Y) ==
    /\ cerf_general(X, Y)
    /\ ~Ge(X, Zero(1))
    /\ ~(/\ Gt(X, Neg(c8e_2))
         /\ \/ Lt(fabs(Y), c1e_2)
            \/ Lt(fabs(mIm_z2(X, Y)), c5e_3) /\ Gt(X, Neg(c5e_3)))
    /\ ~(~Gt(X, Neg(c8e_2)) /\ isnan(X))

cerfGuard(b, X, Y) ==
    CASE b = "real_axis"   -> cerf_real_axis_guard(X, Y)
      [] b = "imag_axis"   -> cerf_imag_axis_guard(X, Y)
      [] b = "underflow"   -> cerf_underflow_guard(X, Y)
      [] b = "taylor"      -> cerf_taylor_guard(X, Y)
      [] b = "taylor_erfi" -> cerf_taylor_erfi_guard(X, Y)
      [] b = "nan"         -> cerf_nan_guard(X, Y)
      [] b = "mirror_pos"  -> cerf_mirror_pos_guard(X, Y)
      [] b = "mirror_neg"  -> cerf_mirror_neg_guard(X, Y)

cerf_real_axis(X, Y) ==
    Res("real_axis", erf(X), Y, {}, <<>>, <<>>)

\* Variant: the limit on the imaginary axis is taken from y*y > 750 on.
cerf_imag_axis_750(X, Y) ==
    IF Gt(Mul(Y, Y), c750)
    THEN Res("imag_axis", X, IF Gt(Y, Zero(1)) THEN Inf ELSE Neg(Inf),
             {}, <<>>, <<>>)
    ELSE Res("imag_axis", X, Mul(pnfft_exp(Mul(Y, Y)), im_w_of_x(Y)),
             {Mul(Y, Y)}, <<Kernel("im_w_of_x", <<Y>>)>>, <<>>)

\* x == 0: exp(y^2) * Im w(y), with the limit for y*y > 720 put in by hand.
cerf_imag_axis(X, Y) ==
    IF Gt(Mul(Y, Y), c720)
    THEN Res("imag_axis", X, IF Gt(Y, Zero(1)) THEN Inf ELSE Neg(Inf),
             {}, <<>>, <<>>)
    ELSE Res("imag_axis", X, Mul(pnfft_exp(Mul(Y, Y)), im_w_of_x(Y)),
             {Mul(Y, Y)}, <<Kernel("im_w_of_x", <<Y>>)>>, <<>>)

cerf_underflow(X, Y) ==
    Res("underflow", IF Ge(X, Zero(1)) THEN One ELSE Neg(One), Zero(1),
        {}, <<>>, <<>>)

\* z * (1.128.. + mz2 * (0.376.. + mz2 * (0.112.. + mz2 * (0.0268.. + mz2 * 0.00522..))))
cerf_taylor(X, Y) ==
    LET mz2 == CNUM(mRe_z2(X, Y), mIm_z2(X, Y))
        p4  == RMul(Dec(522397763, -11), mz2)
        p3  == CMul(mz2, RAdd(Dec(268661706, -10), p4))
        p2  == CMul(mz2, RAdd(Dec(112837917, -9), p3))
        p1  == CMul(mz2, RAdd(Dec(376126389, -9), p2))
        r   == CMul(CNUM(X, Y), RAdd(Dec(112837917, -8), p1))
    IN  Res("taylor", r.re, r.im, {}, <<>>, <<>>)

cerf_taylor_erfi(X, Y) ==
    LET x2 == Mul(X, X)
        y2 == Mul(Y, Y)
        expy2 == pnfft_exp(y2)
        re == Add(Sub(Dec(112837917, -8),
                      Mul(x2, Add(Dec(376126389, -9),
                                  Mul(Dec(752252778, -9), y2)))),
                  Mul(Mul(x2, x2),
                      Add(Dec(112837917, -9),
                          Mul(y2, Add(Dec(451351667, -9),
                                      Mul(Dec(150450556, -9), y2))))))
        im == Sub(Dec(112837917, -8),
                  Mul(x2, Add(Dec(564189584, -9),
                              Mul(Dec(376126389, -9), y2))))
    IN  Res("taylor_erfi",
            Mul(Mul(expy2, X), re),
            Mul(expy2, Sub(im_w_of_x(Y), Mul(Mul(x2, Y), im))),
            {y2}, <<Kernel("im_w_of_x", <<Y>>)>>, <<>>)

\* Variant: the imaginary part of the NaN return is always zero.
cerf_nan_zero(X, Y) == Res("nan", NaN, Zero(1), {}, <<>>, <<>>)

cerf_nan(X, Y) ==
    Res("nan", NaN, IF Eq(Y, Zero(1)) THEN Zero(1) ELSE NaN, {}, <<>>, <<>>)

\* exp(mRe_z2) * ((cos mIm_z2 + i sin mIm_z2) * w(a + ib))
cerf_term(X, Y, a, b) ==
    RMul(pnfft_exp(mRe_z2(X, Y)),
         CMul(CNUM(pnfft_cos(mIm_z2(X, Y)), pnfft_sin(mIm_z2(X, Y))),
              w_of_z(a, b)))

cerf_mirror_pos(X, Y) ==
    LET r == RSub(One, cerf_term(X, Y, Neg(Y), X)) IN
    Res("mirror_pos", r.re, r.im,
        {mRe_z2(X, Y)}, <<Kernel("w_of_z", <<Neg(Y), X>>)>>,
        <<mRe_z2(X, Y), mIm_z2(X, Y)>>)

\* Variant: the x < 0 formula calls w with the argument of the x >= 0 formula.
cerf_mirror_neg_arg(X, Y) ==
    LET r == CSubR(cerf_term(X, Y, Neg(Y), X), One) IN
    Res("mirror_neg", r.re, r.im,
        {mRe_z2(X, Y)}, <<Kernel("w_of_z", <<Neg(Y), X>>)>>,
        <<mRe_z2(X, Y), mIm_z2(X, Y)>>)

cerf_mirror_neg(X, Y) ==
    LET r == CSubR(cerf_term(X, Y, Y, Neg(X)), One) IN
    Res("mirror_neg", r.re, r.im,
        {mRe_z2(X, Y)}, <<Kernel("w_of_z", <<Y, Neg(X)>>)>>,
        <<mRe_z2(X, Y), mIm_z2(X, Y)>>)

cerfValue(b, X, Y) ==
    CASE b = "real_axis"   -> cerf_real_axis(X, Y)
      [] b = "imag_axis"   -> cerf_imag_axis(X, Y)
      [] b = "underflow"   -> cerf_underflow(X, Y)
      [] b = "taylor"      -> cerf_taylor(X, Y)
      [] b = "taylor_erfi" -> cerf_taylor_erfi(X, Y)
      [] b = "nan"         -> cerf_nan(X, Y)
      [] b = "mirror_pos"  -> cerf_mirror_pos(X, Y)
      [] b = "mirror_neg"  -> cerf_mirror_neg(X, Y)

\* The return statements cerf reaches for z = X + iY.
cerfFired(X, Y) == {b \in cerfBranches : cerfGuard(b, X, Y)}

(***************************************************************************)
(* cerfc                                                                   *)
(***************************************************************************)

cerfcBranches ==
    {"imag_axis", "real_axis_underflow", "real_axis", "underflow",
     "mirror_pos", "mirror_neg"}

cerfc_imag_axis_guard(X, Y) == Eq(X, Zero(1))

cerfc_real_axis_underflow_guard(X, Y) ==
    ~Eq(X, Zero(1)) /\ Eq(Y, Zero(1)) /\ Gt(Mul(X, X), c750)

cerfc_real_axis_guard(X, Y) ==
    ~Eq(X, Zero(1)) /\ Eq(Y, Zero(1)) /\ ~Gt(Mul(X, X), c750)

\* Variant: the underflow test of cerfc uses the threshold of the imaginary axis.
cerfc_underflow_guard_720(X, Y) ==
    ~Eq(X, Zero(1)) /\ ~Eq(Y, Zero(1)) /\ Lt(mRe_z2(X, Y), Neg(c720))

cerfc_underflow_guard(X, Y) ==
    ~Eq(X, Zero(1)) /\ ~Eq(Y, Zero(1)) /\ Lt(mRe_z2(X, Y), Neg(c750))

cerfc_mirror_pos_guard(X, Y) ==
    /\ ~Eq(X, Zero(1)) /\ ~Eq(Y, Zero(1)) /\ ~Lt(mRe_z2(X, Y), Neg(c750))
    /\ Ge(X, Zero(1))

\* Variant: the last arm tests x < 0, as its comment reads, instead of being the else.
cerfc_mirror_neg_guard_lt(X, Y) ==
    /\ ~Eq(X, Zero(1)) /\ ~Eq(Y, Zero(1)) /\ ~Lt(mRe_z2(X, Y), Neg(c750))
    /\ Lt(X, Zero(1))

cerfc_mirror_neg_guard(X, Y) ==
    /\ ~Eq(X, Zero(1)) /\ ~Eq(Y, Zero(1)) /\ ~Lt(mRe_z2(X, Y), Neg(c750))
    /\ ~Ge(X, Zero(1))

cerfcGuard(b, X, Y) ==
    CASE b = "imag_axis"           -> cerfc_imag_axis_guard(X, Y)
      [] b = "real_axis_underflow" -> cerfc_real_axis_underflow_guard(X, Y)
      [] b = "real_axis"           -> cerfc_real_axis_guard(X, Y)
      [] b = "underflow"           -> cerfc_underflow_guard(X, Y)
      [] b = "mirror_pos"          -> cerfc_mirror_pos_guard(X, Y)
      [] b = "mirror_neg"          -> cerfc_mirror_neg_guard(X, Y)

\* Variant: the limit on the imaginary axis has the signs it has in cerf.
cerfc_imag_axis_signs(X, Y) ==
    IF Gt(Mul(Y, Y), c720)
    THEN Res("imag_axis", One, IF Gt(Y, Zero(1)) THEN Inf ELSE Neg(Inf),
             {}, <<>>, <<>>)
    ELSE Res("imag_axis", One, Mul(Neg(pnfft_exp(Mul(Y, Y))), im_w_of_x(Y)),
             {Mul(Y, Y)}, <<Kernel("im_w_of_x", <<Y>>)>>, <<>>)

cerfc_imag_axis(X, Y) ==
    IF Gt(Mul(Y, Y), c720)
    THEN Res("imag_axis", One, IF Gt(Y, Zero(1)) THEN Neg(Inf) ELSE Inf,
             {}, <<>>, <<>>)
    ELSE Res("imag_axis", One, Mul(Neg(pnfft_exp(Mul(Y, Y))), im_w_of_x(Y)),
             {Mul(Y, Y)}, <<Kernel("im_w_of_x", <<Y>>)>>, <<>>)

cerfc_real_axis_underflow(X, Y) ==
    Res("real_axis_underflow", IF Ge(X, Zero(1)) THEN Zero(1) ELSE Two, Neg(Y),
        {}, <<>>, <<>>)

cerfc_real_axis(X, Y) ==
    IF Ge(X, Zero(1))
    THEN Res("real_axis", Mul(pnfft_exp(Mul(Neg(X), X)), erfcx(X)), Neg(Y),
             {Mul(Neg(X), X)}, <<Kernel("erfcx", <<X>>)>>, <<>>)
    ELSE Res("real_axis",
             Sub(Two, Mul(pnfft_exp(Mul(Neg(X), X)), erfcx(Neg(X)))), Neg(Y),
             {Mul(Neg(X), X)}, <<Kernel("erfcx", <<Neg(X)>>)>>, <<>>)

cerfc_underflow(X, Y) ==
    Res("underflow", IF Ge(X, Zero(1)) THEN Zero(1) ELSE Two, Zero(1),
        {}, <<>>, <<>>)

\* cexp(-z^2) * w(-y + ix)
cerfc_mirror_pos(X, Y) ==
    LET r == CMul(pnfft_cexp(mRe_z2(X, Y), mIm_z2(X, Y)), w_of_z(Neg(Y), X)) IN
    Res("mirror_pos", r.re, r.im,
        {mRe_z2(X, Y)}, <<Kernel("w_of_z", <<Neg(Y), X>>)>>,
        <<mRe_z2(X, Y), mIm_z2(X, Y)>>)

\* 2 - cexp(-z^2) * w(y - ix)
cerfc_mirror_neg(X, Y) ==
    LET r == RSub(Two, CMul(pnfft_cexp(mRe_z2(X, Y), mIm_z2(X, Y)),
                            w_of_z(Y, Neg(X)))) IN
    Res("mirror_neg", r.re, r.im,
        {mRe_z2(X, Y)}, <<Kernel("w_of_z", <<Y, Neg(X)>>)>>,
        <<mRe_z2(X, Y), mIm_z2(X, Y)>>)

cerfcValue(b, X, Y) ==
    CASE b = "imag_axis"           -> cerfc_imag_axis(X, Y)
      [] b = "real_axis_underflow" -> cerfc_real_axis_underflow(X, Y)
      [] b = "real_axis"           -> cerfc_real_axis(X, Y)
      [] b = "underflow"           -> cerfc_underflow(X, Y)
      [] b = "mirror_pos"          -> cerfc_mirror_pos(X, Y)
      [] b = "mirror_neg"          -> cerfc_mirror_neg(X, Y)

cerfcFired(X, Y) == {b \in cerfcBranches : cerfcGuard(b, X, Y)}

(***************************************************************************)
(* cdawson                                                                 *)
(***************************************************************************)

cdawsonBranches ==
    {"real_axis", "imag_taylor", "imag_axis", "taylor", "realaxis_cf1",
     "realaxis_cf6", "realaxis_D", "nan", "direct_pos", "direct_neg"}

\* Off both axes.
cdawson_general(X, Y) == ~Eq(Y, Zero(1)) /\ ~Eq(X, Zero(1))

\* goto taylor
cdawson_goto_taylor(X, Y) ==
    /\ cdawson_general(X, Y)
    /\ \/ Ge(Y, Zero(1)) /\ Lt(Y, c5e_3) /\ Lt(fabs(X), c5e_3)
       \/ ~Ge(Y, Zero(1)) /\ Gt(Y, Neg(c5e_3)) /\ Lt(fabs(X), c5e_3)

\* Variant: goto taylor_realaxis without the test of |Im(-z^2)|.
cdawson_goto_realaxis_any(X, Y) ==
    /\ cdawson_general(X, Y)
    /\ \/ Ge(Y, Zero(1)) /\ Lt(Y, c5e_3) /\ ~Lt(fabs(X), c5e_3)
       \/ ~Ge(Y, Zero(1)) /\ Gt(Y, Neg(c5e_3)) /\ ~Lt(fabs(X), c5e_3)

\* goto taylor_realaxis
cdawson_goto_realaxis(X, Y) ==
    /\ cdawson_general(X, Y)
    /\ \/ /\ Ge(Y, Zero(1)) /\ Lt(Y, c5e_3) /\ ~Lt(fabs(X), c5e_3)
          /\ Lt(fabs(mIm_z2(X, Y)), c5e_3)
       \/ /\ ~Ge(Y, Zero(1)) /\ Gt(Y, Neg(c5e_3)) /\ ~Lt(fabs(X), c5e_3)
          /\ Lt(fabs(mIm_z2(X, Y)), c5e_3)

cdawson_real_axis_guard(X, Y) == Eq(Y, Zero(1))

cdawson_imag_taylor_guard(X, Y) ==
    ~Eq(Y, Zero(1)) /\ Eq(X, Zero(1)) /\ Lt(Mul(Y, Y), c25e_6)

cdawson_imag_axis_guard(X, Y) ==
    ~Eq(Y, Zero(1)) /\ Eq(X, Zero(1)) /\ ~Lt(Mul(Y, Y), c25e_6)

cdawson_taylor_guard(X, Y) == cdawson_goto_taylor(X, Y)

\* Variant: the 1-term regime starts at x^2 == 25e14 instead of above it.
cdawson_realaxis_cf1_guard_ge(X, Y) ==
    /\ cdawson_goto_realaxis(X, Y)
    /\ Gt(Mul(X, X), c1600)
    /\ Ge(Mul(X, X), c25e14)

cdawson_realaxis_cf1_guard(X, Y) ==
    /\ cdawson_goto_realaxis(X, Y)
    /\ Gt(Mul(X, X), c1600)
    /\ Gt(Mul(X, X), c25e14)

cdawson_realaxis_cf6_guard(X, Y) ==
    /\ cdawson_goto_realaxis(X, Y)
    /\ Gt(Mul(X, X), c1600)
    /\ ~Gt(Mul(X, X), c25e14)

cdawson_realaxis_D_guard(X, Y) ==
    /\ cdawson_goto_realaxis(X, Y)
    /\ ~Gt(Mul(X, X), c1600)

cdawson_nan_guard(X, Y) ==
    /\ cdawson_general(X, Y)
    /\ ~Ge(Y, Zero(1)) /\ ~Gt(Y, Neg(c5e_3)) /\ isnan(Y)

cdawson_direct_pos_guard(X, Y) ==
    /\ cdawson_general(X, Y)
    /\ Ge(Y, Zero(1))
    /\ ~(/\ Lt(Y, c5e_3)
         /\ \/ Lt(fabs(X), c5e_3)
            \/ Lt(fabs(mIm_z2(X, Y)), c5e_3))

cdawson_direct_neg_guard(X, Y) ==
    /\ cdawson_general(X, Y)
    /\ ~Ge(Y, Zero(1))
    /\ ~(/\ Gt(Y, Neg(c5e_3))
         /\ \/ Lt(fabs(X), c5e_3)
            \/ Lt(fabs(mIm_z2(X, Y)), c5e_3))
    /\ ~(~Gt(Y, Neg(c5e_3)) /\ isnan(Y))

cdawsonGuard(b, X, Y) ==
    CASE b = "real_axis"    -> cdawson_real_axis_guard(X, Y)
      [] b = "imag_taylor"  -> cdawson_imag_taylor_guard(X, Y)
      [] b = "imag_axis"    -> cdawson_imag_axis_guard(X, Y)
      [] b = "taylor"       -> cdawson_taylor_guard(X, Y)
      [] b = "realaxis_cf1" -> cdawson_realaxis_cf1_guard(X, Y)
      [] b = "realaxis_cf6" -> cdawson_realaxis_cf6_guard(X, Y)
      [] b = "realaxis_D"   -> cdawson_realaxis_D_guard(X, Y)
      [] b = "nan"          -> cdawson_nan_guard(X, Y)
      [] b = "direct_pos"   -> cdawson_direct_pos_guard(X, Y)
      [] b = "direct_neg"   -> cdawson_direct_neg_guard(X, Y)

c2_3 == Dec(666666667, -9)

c4_15 == Dec(266666667, -9)

\* Variant: the zero imaginary part is passed on as it is.
cdawson_real_axis_keep(X, Y) ==
    Res("real_axis", Mul(spi2, im_w_of_x(X)), Y,
        {}, <<Kernel("im_w_of_x", <<X>>)>>, <<>>)

cdawson_real_axis(X, Y) ==
    Res("real_axis", Mul(spi2, im_w_of_x(X)), Neg(Y),
        {}, <<Kernel("im_w_of_x", <<X>>)>>, <<>>)

cdawson_imag_taylor(X, Y) ==
    LET y2 == Mul(Y, Y) IN
    Res("imag_taylor", X,
        Mul(Y, Add(One, Mul(y2, Add(c2_3, Mul(y2, c4_15))))),
        {}, <<>>, <<>>)

cdawson_imag_axis(X, Y) ==
    LET y2 == Mul(Y, Y) IN
    IF Ge(Y, Zero(1))
    THEN Res("imag_axis", X, Mul(spi2, Sub(pnfft_exp(y2), erfcx(Y))),
             {y2}, <<Kernel("erfcx", <<Y>>)>>, <<>>)
    ELSE Res("imag_axis", X, Mul(spi2, Sub(erfcx(Neg(Y)), pnfft_exp(y2))),
             {y2}, <<Kernel("erfcx", <<Neg(Y)>>)>>, <<>>)

\* z * (1 + mz2 * (2/3 + mz2 * 4/15))
cdawson_taylor(X, Y) ==
    LET mz2 == CNUM(mRe_z2(X, Y), mIm_z2(X, Y))
        r   == CMul(CNUM(X, Y),
                    RAdd(One, CMul(mz2, RAdd(c2_3, RMul(c4_15, mz2)))))
    IN  Res("taylor", r.re, r.im, {}, <<>>, <<>>)

\* x^2 > 25e14: the 1-term and 2-term continued fractions
cdawson_realaxis_cf1(X, Y) ==
    LET x2  == Mul(X, X)
        y2  == Mul(Y, Y)
        xy2 == Mul(Mul(X, Y), Mul(X, Y))
    IN  Res("realaxis_cf1",
            Div(Add(Dec(5, -1),
                    Mul(y2, Sub(Add(Dec(5, -1), Mul(Dec(25, -2), y2)),
                                Mul(Dec(166666667, -9), xy2)))),
                X),
            Div(Mul(Y, Add(Neg(One),
                           Mul(y2, Sub(Add(Neg(c2_3),
                                           Mul(Dec(133333333, -9), xy2)),
                                       Mul(c4_15, y2))))),
                Sub(Mul(Two, x2), One)),
            {}, <<>>, <<>>)

\* 1600 < x^2 <= 25e14: the 6-term continued fraction
cdawson_realaxis_cf6(X, Y) ==
    LET x2 == Mul(X, X)
        y2 == Mul(Y, Y)
        den == Add(Neg(Dec(15, 0)),
                   Mul(x2, Add(Dec(90, 0),
                               Mul(x2, Add(Neg(Dec(60, 0)),
                                           Mul(Dec(8, 0), x2))))))
        r == RMul(Div(One, den),
                  CNUM(Mul(X, Add(Add(Dec(33, 0),
                                      Mul(x2, Add(Neg(Dec(28, 0)),
                                                  Mul(Dec(4, 0), x2)))),
                                  Mul(y2, Add(Sub(Dec(18, 0),
                                                  Mul(Dec(4, 0), x2)),
                                              Mul(Dec(4, 0), y2))))),
                       Mul(Y, Add(Add(Neg(Dec(15, 0)),
                                      Mul(x2, Sub(Dec(24, 0),
                                                  Mul(Dec(4, 0), x2)))),
                                  Mul(y2, Sub(Sub(Mul(Dec(4, 0), x2),
                                                  Dec(10, 0)),
                                              Mul(Dec(4, 0), y2)))))))
    IN  Res("realaxis_cf6", r.re, r.im, {}, <<>>, <<>>)

\* x^2 <= 1600: Taylor series in y around D = dawson(x)
cdawson_realaxis_D(X, Y) ==
    LET x2 == Mul(X, X)
        y2 == Mul(Y, Y)
        D  == Mul(spi2, im_w_of_x(X))
        Dx == Mul(D, X)
        re == Add(Add(D, Mul(y2, Sub(Add(D, X), Mul(Mul(Two, D), x2)))),
                  Mul(Mul(y2, y2),
                      Add(Mul(D, Sub(Dec(5, -1),
                                     Mul(x2, Sub(Two, Mul(c2_3, x2))))),
                          Mul(X, Sub(Dec(833333333, -9),
                                     Mul(Dec(333333333, -9), x2))))))
        im == Add(Add(Sub(One, Mul(Mul(Two, D), X)),
                      Mul(Mul(y2, c2_3),
                          Sub(Sub(One, x2),
                              Mul(Dx, Sub(Dec(3, 0), Mul(Two, x2)))))),
                  Mul(Mul(y2, y2),
                      Sub(Sub(c4_15,
                              Mul(x2, Sub(Dec(6, -1),
                                          Mul(Dec(133333333, -9), x2)))),
                          Mul(Dx, Sub(One,
                                      Mul(x2, Sub(Dec(133333333, -8),
                                                  Mul(c4_15, x2))))))))
    IN  Res("realaxis_D", re, Mul(Y, im),
            {}, <<Kernel("im_w_of_x", <<X>>)>>, <<>>)

cdawson_nan(X, Y) ==
    Res("nan", IF Eq(X, Zero(1)) THEN Zero(1) ELSE NaN, NaN, {}, <<>>, <<>>)

\* spi2 * i * (cexp(-z^2) - w(z))
cdawson_direct_pos(X, Y) ==
    LET res == CSub(pnfft_cexp(mRe_z2(X, Y), mIm_z2(X, Y)), w_of_z(X, Y))
        r   == RMul(spi2, CNUM(Neg(res.im), res.re))
    IN  Res("direct_pos", r.re, r.im,
            {mRe_z2(X, Y)}, <<Kernel("w_of_z", <<X, Y>>)>>,
            <<mRe_z2(X, Y), mIm_z2(X, Y)>>)

\* spi2 * i * (w(-z) - cexp(-z^2))
cdawson_direct_neg(X, Y) ==
    LET res == CSub(w_of_z(Neg(X), Neg(Y)),
                    pnfft_cexp(mRe_z2(X, Y), mIm_z2(X, Y)))
        r   == RMul(spi2, CNUM(Neg(res.im), res.re))
    IN  Res("direct_neg", r.re, r.im,
            {mRe_z2(X, Y)}, <<Kernel("w_of_z", <<Neg(X), Neg(Y)>>)>>,
            <<mRe_z2(X, Y), mIm_z2(X, Y)>>)

cdawsonValue(b, X, Y) ==
    CASE b = "real_axis"    -> cdawson_real_axis(X, Y)
      [] b = "imag_taylor"  -> cdawson_imag_taylor(X, Y)
      [] b = "imag_axis"    -> cdawson_imag_axis(X, Y)
      [] b = "taylor"       -> cdawson_taylor(X, Y)
      [] b = "realaxis_cf1" -> cdawson_realaxis_cf1(X, Y)
      [] b = "realaxis_cf6" -> cdawson_realaxis_cf6(X, Y)
      [] b = "realaxis_D"   -> cdawson_realaxis_D(X, Y)
      [] b = "nan"          -> cdawson_nan(X, Y)
      [] b = "direct_pos"   -> cdawson_direct_pos(X, Y)
      [] b = "direct_neg"   -> cdawson_direct_neg(X, Y)

cdawsonFired(X, Y) == {b \in cdawsonBranches : cdawsonGuard(b, X, Y)}

(***************************************************************************)
(* erfi and voigt                                                          *)
(***************************************************************************)

erfiBranches == {"limit", "product"}

erfi_limit_guard(X) == Gt(Mul(X, X), c720)

erfi_product_guard(X) == ~Gt(Mul(X, X), c720)

erfiGuard(b, X) ==
    CASE b = "limit"   -> erfi_limit_guard(X)
      [] b = "product" -> erfi_product_guard(X)

erfi_limit(X) ==
    Res("limit", IF Gt(X, Zero(1)) THEN Inf ELSE Neg(Inf), Zero(1),
        {}, <<>>, <<>>)

erfi_product(X) ==
    Res("product", Mul(pnfft_exp(Mul(X, X)), im_w_of_x(X)), Zero(1),
        {Mul(X, X)}, <<Kernel("im_w_of_x", <<X>>)>>, <<>>)

erfiValue(b, X) ==
    CASE b = "limit"   -> erfi_limit(X)
      [] b = "product" -> erfi_product(X)

erfiFired(X) == {b \in erfiBranches : erfiGuard(b, X)}

s2pi == Dec(250662827, -8)

pi == Dec(314159265, -8)

voigtBranches == {"delta", "gaussian", "lorentzian", "regular"}

\* Variant: gamma is used as given.
gam_signed(G) == G

gam(G) == IF Lt(G, Zero(1)) THEN Neg(G) ELSE G

sig(S) == IF Lt(S, Zero(1)) THEN Neg(S) ELSE S

voigt_delta_guard(X, S, G) == Eq(gam(G), Zero(1)) /\ Eq(sig(S), Zero(1))

voigt_gaussian_guard(X, S, G) == Eq(gam(G), Zero(1)) /\ ~Eq(sig(S), Zero(1))

voigt_lorentzian_guard(X, S, G) == ~Eq(gam(G), Zero(1)) /\ Eq(sig(S), Zero(1))

voigt_regular_guard(X, S, G) == ~Eq(gam(G), Zero(1)) /\ ~Eq(sig(S), Zero(1))

voigtGuard(b, X, S, G) ==
    CASE b = "delta"      -> voigt_delta_guard(X, S, G)
      [] b = "gaussian"   -> voigt_gaussian_guard(X, S, G)
      [] b = "lorentzian" -> voigt_lorentzian_guard(X, S, G)
      [] b = "regular"    -> voigt_regular_guard(X, S, G)

\* Variant: return x > 0 || x < 0 ? 0 : Inf
voigt_delta_ordered(X, S, G) ==
    Res("delta",
        IF Gt(X, Zero(1)) \/ Lt(X, Zero(1)) THEN Zero(1) ELSE Inf, Zero(1),
        {}, <<>>, <<>>)

\* return x ? 0 : Inf
voigt_delta(X, S, G) ==
    Res("delta", IF ~Eq(X, Zero(1)) THEN Zero(1) ELSE Inf, Zero(1),
        {}, <<>>, <<>>)

\* exp(-x*x/2/(sig*sig)) / s2pi / sig
voigt_gaussian(X, S, G) ==
    LET a == Div(Div(Mul(Neg(X), X), Two), Mul(sig(S), sig(S))) IN
    Res("gaussian", Div(Div(pnfft_exp(a), s2pi), sig(S)), Zero(1),
        {a}, <<>>, <<>>)

\* gam / pi / (x*x + gam*gam)
voigt_lorentzian(X, S, G) ==
    Res("lorentzian",
        Div(Div(gam(G), pi), Add(Mul(X, X), Mul(gam(G), gam(G)))), Zero(1),
        {}, <<>>, <<>>)

\* Re w((x + i gam) / sqrt(2) / sig) / s2pi / sig
voigt_regular(X, S, G) ==
    LET sqrt2 == Form("sqrt", <<Two>>)
        zre == Div(Div(X, sqrt2), sig(S))
        zim == Div(Div(gam(G), sqrt2), sig(S))
    IN  Res("regular", Div(Div(w_of_z(zre, zim).re, s2pi), sig(S)), Zero(1),
            {}, <<Kernel("w_of_z", <<zre, zim>>)>>, <<>>)

voigtValue(b, X, S, G) ==
    CASE b = "delta"      -> voigt_delta(X, S, G)
      [] b = "gaussian"   -> voigt_gaussian(X, S, G)
      [] b = "lorentzian" -> voigt_lorentzian(X, S, G)
      [] b = "regular"    -> voigt_regular(X, S, G)

voigtFired(X, S, G) == {b \in voigtBranches : voigtGuard(b, X, S, G)}

(***************************************************************************)
(* cerfi                                                                   *)
(***************************************************************************)

\* The return statements of cerf that cerfi(X + iY) reaches: e = cerf(-Y + iX).
cerfiFired(X, Y) == cerfFired(Neg(Y), X)

\* Variant: the real part of e is passed on without the minus sign.
cerfi_rotate_unnegated(e) ==
    Res(e.branch, e.im, e.re, e.exps, e.kern, e.efac)

\* CNUM(Im e, -Re e)
cerfi_rotate(e) == Res(e.branch, e.im, Neg(e.re), e.exps, e.kern, e.efac)

cerfi(b, X, Y) == cerfi_rotate(cerfValue(b, Neg(Y), X))

(***************************************************************************)
(* Calls                                                                   *)
(***************************************************************************)

\* Magnitudes of the finite nonzero arguments tried: both sides of every
\* threshold of the dispatchers.
Mags ==
    {Dec(1, -11), Dec(1, -5), Dec(1, -4), Dec(25, -4), Dec(4, -3), Dec(5, -3),
     Dec(1, -2),
     Dec(8, -2), Dec(1, 0), Dec(27, 0), Dec(28, 0), Dec(40, 0), Dec(41, 0),
     Dec(1, 2), Dec(5, 7), Dec(1, 8)}

Reals ==
    {NaN, Inf, Neg(Inf), Zero(1), Zero(-1)} \cup Mags \cup {Neg(m) : m \in Mags}

\* Arguments of voigt: x, and the widths sigma and gamma.
VoigtX == {NaN, Inf, Neg(Inf), Zero(1), Zero(-1), One, Neg(One)}

Widths == {NaN, Inf, Neg(Inf), Zero(1), Zero(-1), Two, Neg(Two)}

NoRes == Res("none", Zero(1), Zero(1), {}, <<>>, <<>>)

Init ==
    /\ pc = "idle"
    /\ fn = "none"
    /\ x = Zero(1)
    /\ y = Zero(1)
    /\ sigma = Zero(1)
    /\ gamma = Zero(1)
    /\ ret = NoRes

\* A caller evaluates f(X + iY).
Call(f, X, Y) ==
    /\ pc = "idle"
    /\ pc' = "called"
    /\ fn' = f
    /\ x' = X
    /\ y' = Y
    /\ UNCHANGED <<sigma, gamma, ret>>

Return(r) ==
    /\ pc' = "returned"
    /\ ret' = r
    /\ UNCHANGED <<fn, x, y, sigma, gamma>>

Call_cerf == \E X \in Reals, Y \in Reals : Call("cerf", X, Y)

Ret_cerf ==
    /\ pc = "called"
    /\ fn = "cerf"
    /\ \E b \in cerfFired(x, y) : Return(cerfValue(b, x, y))

Call_cerfc == \E X \in Reals, Y \in Reals : Call("cerfc", X, Y)

Ret_cerfc ==
    /\ pc = "called"
    /\ fn = "cerfc"
    /\ \E b \in cerfcFired(x, y) : Return(cerfcValue(b, x, y))

Call_cdawson == \E X \in Reals, Y \in Reals : Call("cdawson", X, Y)

Ret_cdawson ==
    /\ pc = "called"
    /\ fn = "cdawson"
    /\ \E b \in cdawsonFired(x, y) : Return(cdawsonValue(b, x, y))

Call_cerfi == \E X \in Reals, Y \in Reals : Call("cerfi", X, Y)

Ret_cerfi ==
    /\ pc = "called"
    /\ fn = "cerfi"
    /\ \E b \in cerfiFired(x, y) : Return(cerfi(b, x, y))

Call_erfi == \E X \in Reals : Call("erfi", X, Zero(1))

Ret_erfi ==
    /\ pc = "called"
    /\ fn = "erfi"
    /\ \E b \in erfiFired(x) : Return(erfiValue(b, x))

Call_voigt ==
    \E X \in VoigtX, S \in Widths, G \in Widths :
        /\ pc = "idle"
        /\ pc' = "called"
        /\ fn' = "voigt"
        /\ x' = X
        /\ sigma' = S
        /\ gamma' = G
        /\ UNCHANGED <<y, ret>>

Ret_voigt ==
    /\ pc = "called"
    /\ fn = "voigt"
    /\ \E b \in voigtFired(x, sigma, gamma) :
           Return(voigtValue(b, x, sigma, gamma))

\* The caller takes the result; the next call starts afresh.
Done ==
    /\ pc = "returned"
    /\ pc' = "idle"
    /\ fn' = "none"
    /\ x' = Zero(1)
    /\ y' = Zero(1)
    /\ sigma' = Zero(1)
    /\ gamma' = Zero(1)
    /\ ret' = NoRes

Next ==
    \/ Call_cerf
    \/ Ret_cerf
    \/ Call_cerfc
    \/ Ret_cerfc
    \/ Call_cdawson
    \/ Ret_cdawson
    \/ Call_cerfi
    \/ Ret_cerfi
    \/ Call_erfi
    \/ Ret_erfi
    \/ Call_voigt
    \/ Ret_voigt
    \/ Done

Spec == Init /\ [][Next]_vars

(***************************************************************************)
(* Properties                                                              *)
(***************************************************************************)

Returned(f) == pc = "returned" /\ fn = f

InCall(f) == pc \in {"called", "returned"} /\ fn = f

\* The return statements the called function reaches on its arguments.
FiredNow ==
    CASE fn = "cerf"    -> cerfFired(x, y)
      [] fn = "cerfc"   -> cerfcFired(x, y)
      [] fn = "cdawson" -> cdawsonFired(x, y)
      [] fn = "erfi"    -> erfiFired(x)
      [] fn = "voigt"   -> voigtFired(x, sigma, gamma)

IsValue(a) == a.k \in {"nan", "inf", "zero", "fin", "sym"}

\* C1: every dispatcher is total: whatever the arguments (finite, +-0,
\* +-Inf, NaN), exactly one return statement is reached, and the call
\* returns the value of that statement.
C1_Total ==
    pc \in {"called", "returned"} /\ fn \in {"cerf", "cerfc", "cdawson", "voigt"}
    => /\ Cardinality(FiredNow) = 1
       /\ pc = "returned"
          => ret.branch \in FiredNow /\ IsValue(ret.re) /\ IsValue(ret.im)

\* A NaN real part off the axes: past every test of cerfc, down to its last else.
C1_Witness ==
    /\ Returned("cerfc") /\ isnan(x) /\ y = One
    /\ ret.branch = "mirror_neg"

\* C2: on the real axis (y = +-0, any x) cerf returns erf(x) and the zero
\* of the argument, sign included; the y == 0 test wins over the x == 0 test.
C2_RealAxis ==
    InCall("cerf") /\ Eq(y, Zero(1))
    => /\ cerfFired(x, y) = {"real_axis"}
       /\ pc = "returned" => ret.re = erf(x) /\ ret.im = y

C2_Witness ==
    /\ Returned("cerf") /\ x = Zero(1) /\ y = Zero(-1)
    /\ ret.branch = "real_axis" /\ ret.im = Zero(-1)

\* C3: on the real axis (y = +-0, any x, x == 0 included) cerfc and cdawson
\* return as imaginary part the zero of the argument with its sign flipped.
C3_NegatedZero ==
    (Returned("cerfc") \/ Returned("cdawson")) /\ Eq(y, Zero(1))
    => ret.im = Neg(y)

\* cerfc at x == 0, y == -0: the x == 0 branch computes -exp(0) * Im w(-0).
C3_Witness ==
    /\ Returned("cerfc") /\ x = Zero(1) /\ y = Zero(-1)
    /\ ret.branch = "imag_axis" /\ ret.im = Zero(1)

\* 1 if b is the same value as a, -1 if b is the value -a, 0 if neither
\* is known: a + b = b + a, -(a + b) = (-a) + (-b), (-a) * b = -(a * b)
\* and (-a) / b = -(a / b) hold exactly in IEEE arithmetic.
RECURSIVE Rel(_, _)
Rel(a, b) ==
    IF a.k # "sym" \/ b.k # "sym"
    THEN IF a = b THEN 1
         ELSE IF a.k # "sym" /\ ~isnan(a) /\ b = Neg(a) THEN -1
         ELSE 0
    ELSE IF a.op # b.op \/ Len(a.args) # Len(b.args) THEN 0
    ELSE LET sg == a.s * b.s
             p  == a.args
             q  == b.args
         IN  IF a.op = "add"
             THEN LET r11 == Rel(p[1], q[1])
                      r22 == Rel(p[2], q[2])
                      r12 == Rel(p[1], q[2])
                      r21 == Rel(p[2], q[1])
                  IN  IF r11 # 0 /\ r11 = r22 THEN sg * r11
                      ELSE IF r12 # 0 /\ r12 = r21 THEN sg * r12
                      ELSE 0
             ELSE IF a.op \in {"mul", "div"}
             THEN sg * Rel(p[1], q[1]) * Rel(p[2], q[2])
             ELSE IF p = q THEN sg ELSE 0

\* b == -a as C compares: NaN stands for itself, and the zeros are equal.
Opposite(a, b) ==
    \/ isnan(a) /\ isnan(b)
    \/ a.k = "zero" /\ b.k = "zero"
    \/ Rel(a, b) = -1

\* The return statement that mirrors b under z -> -z.
Mirror(b) ==
    CASE b = "mirror_pos" -> "mirror_neg"
      [] b = "mirror_neg" -> "mirror_pos"
      [] b = "direct_pos" -> "direct_neg"
      [] b = "direct_neg" -> "direct_pos"
      [] OTHER -> b

\* a == b as C compares, NaN standing for itself.
SameNum(a, b) == a = b \/ (a.k = "zero" /\ b.k = "zero")

OddAt(F, V(_), r) ==
    /\ F = {Mirror(r.branch)}
    /\ \A b \in F :
          /\ Opposite(r.re, V(b).re)
          /\ Opposite(r.im, V(b).im)
          /\ V(b).kern # <<>> /\ V(b).kern[1].f = "w_of_z"
             => /\ V(b).kern = r.kern
                /\ \A i \in 1..2 : SameNum(V(b).efac[i], r.efac[i])

\* C4: cerf and cdawson are odd: at -z the dispatcher takes the mirror
\* image of the return statement it takes at z, calls w_of_z (if at all)
\* with the same argument and the same exp(-z^2), and returns the negated
\* value (erf, sin and im_w_of_x being odd).
C4_Odd ==
    /\ Returned("cerf")
       => LET V(b) == cerfValue(b, Neg(x), Neg(y)) IN
          OddAt(cerfFired(Neg(x), Neg(y)), V, ret)
    /\ Returned("cdawson")
       => LET V(b) == cdawsonValue(b, Neg(x), Neg(y)) IN
          OddAt(cdawsonFired(Neg(x), Neg(y)), V, ret)

C4_Witness ==
    /\ Returned("cerf") /\ x = Neg(One) /\ y = One
    /\ ret.branch = "mirror_neg"
    /\ cerfFired(One, Neg(One)) = {"mirror_pos"}
    /\ ret.kern = <<Kernel("w_of_z", <<One, One>>)>>

\* cerfc agrees with 1 - cerf at z = x + iy, return statement by return
\* statement: both take the underflow shortcut (and 1 - (+-1) is the 0 or 2
\* that cerfc returns), or both take the formula of the same side, with the
\* same exp(-z^2) and the same argument of w_of_z.
ComplementAt(r) ==
    /\ cerfFired(x, y) = {r.branch}
    /\ \A b \in cerfFired(x, y) :
          LET e == cerfValue(b, x, y) IN
          IF b = "underflow"
          THEN SameNum(r.re, Sub(One, e.re)) /\ SameNum(r.im, Neg(e.im))
          ELSE /\ b \in {"mirror_pos", "mirror_neg"}
               /\ r.kern = e.kern
               /\ r.efac = e.efac
               /\ r.exps = e.exps

\* C5 as stated: for every z off both axes where cerf takes none of its two
\* Taylor branches, cerfc(z) is 1 - cerf(z) in the above sense.
C5_Original ==
    /\ Returned("cerfc")
    /\ ~Eq(x, Zero(1)) /\ ~Eq(y, Zero(1))
    /\ cerfFired(x, y) \cap {"taylor", "taylor_erfi"} = {}
    => ComplementAt(ret)

\* C5, amended: the same for every z off both axes whose real part is not
\* NaN.  (For a NaN real part cerf returns (NaN, NaN) at once, without exp
\* or kernel, while cerfc evaluates 2 - cexp(-z^2) * w(y - ix).)
C5_Complement ==
    /\ Returned("cerfc")
    /\ ~Eq(x, Zero(1)) /\ ~Eq(y, Zero(1)) /\ ~isnan(x)
    /\ cerfFired(x, y) \cap {"taylor", "taylor_erfi"} = {}
    => ComplementAt(ret)

C5_Witness ==
    /\ Returned("cerfc") /\ x = Neg(Dec(27, 0)) /\ y = One
    /\ ret.branch = "mirror_neg"
    /\ cerfFired(x, y) = {"mirror_neg"}
    /\ ret.kern = <<Kernel("w_of_z", <<One, Dec(27, 0)>>)>>

\* C6: voigt chooses its branch from the zeroness of |sigma| and |gamma|
\* alone: delta (Inf at x == 0, else 0), Gaussian, Lorentzian, or the
\* regular case with exactly one call of w_of_z; and negating sigma or
\* gamma (-0 for 0 included) changes neither the branch nor the value.
C6_Voigt ==
    InCall("voigt")
    => LET sz == Eq(fabs(sigma), Zero(1))
           gz == Eq(fabs(gamma), Zero(1))
           want == IF gz /\ sz THEN "delta"
                   ELSE IF gz THEN "gaussian"
                   ELSE IF sz THEN "lorentzian"
                   ELSE "regular"
       IN  /\ voigtFired(x, sigma, gamma) = {want}
           /\ pc = "returned"
              => /\ ret.branch = want
                 /\ want = "delta"
                    => ret.re = (IF Eq(x, Zero(1)) THEN Inf ELSE Zero(1))
                 /\ want = "regular"
                    => Len(ret.kern) = 1 /\ ret.kern[1].f = "w_of_z"
                 /\ want # "regular" => ret.kern = <<>>
                 /\ \A S \in {sigma, Neg(sigma)}, G \in {gamma, Neg(gamma)} :
                       /\ voigtFired(x, S, G) = {want}
                       /\ voigtValue(want, x, S, G) = ret

C6_Witness ==
    /\ Returned("voigt") /\ x = One /\ sigma = Zero(-1) /\ gamma = Neg(Two)
    /\ ret.branch = "lorentzian"
    /\ ret = voigtValue("lorentzian", One, Zero(1), Two)

\* C7 as stated: no dispatcher evaluates an exponential whose argument
\* exceeds the guard (750) in magnitude.
C7_Original ==
    pc = "returned" /\ fn \in {"cerf", "cerfc", "cdawson", "erfi"}
    => \A a \in ret.exps : ~Gt(fabs(a), c750)

\* C7, amended: the exponential is guarded in these places only.  erfi and
\* the x == 0 branches of cerf and cerfc evaluate exp(t*t) only if t*t > 720
\* is false, and return +-Inf otherwise; the y == 0 branch of cerfc
\* evaluates exp(-x*x) only if x*x > 750 is false, and returns 0 or 2
\* otherwise; the mirror formulas of cerf and cerfc evaluate exp(Re(-z^2))
\* only if Re(-z^2) < -750 is false, and +-1 resp. 0 or 2 is returned
\* otherwise.  (No guard bounds Re(-z^2) from above in the mirror formulas,
\* y*y in the near-imaginary-axis Taylor branch of cerf, or any exponential
\* of cdawson.)
C7_Guarded ==
    /\ (Returned("erfi") \/ ((Returned("cerf") \/ Returned("cerfc"))
                              /\ ret.branch = "imag_axis"))
       => LET t == IF fn = "erfi" THEN x ELSE y IN
          IF Gt(Mul(t, t), c720)
          THEN ret.exps = {} /\ Inf \in {ret.re, ret.im, Neg(ret.re), Neg(ret.im)}
          ELSE ret.exps = {Mul(t, t)} /\ \A a \in ret.exps : ~Gt(a, c720)
    /\ Returned("cerfc") /\ ret.branch \in {"real_axis", "real_axis_underflow"}
       => IF Gt(Mul(x, x), c750)
          THEN ret.exps = {} /\ ret.re \in {Zero(1), Two}
          ELSE ret.exps = {Mul(Neg(x), x)}
               /\ \A a \in ret.exps : ~Lt(a, Neg(c750))
    /\ (Returned("cerf") \/ Returned("cerfc"))
          /\ ret.branch \in {"underflow", "mirror_pos", "mirror_neg"}
       => IF Lt(mRe_z2(x, y), Neg(c750))
          THEN ret.exps = {}
               /\ ret.re \in {One, Neg(One), Zero(1), Two}
               /\ ret.im = Zero(1)
          ELSE ret.exps = {mRe_z2(x, y)}
               /\ \A a \in ret.exps : ~Lt(a, Neg(c750))

\* The limit in place of exp(729) on the imaginary axis, 729 being below 750.
C7_Witness ==
    /\ Returned("cerf") /\ x = Zero(1) /\ y = Dec(27, 0)
    /\ ret.im = Inf /\ ret.exps = {}

\* C8: a NaN real part makes cerf return (NaN, zero) on the real axis and
\* (NaN, NaN) elsewhere; a NaN imaginary part makes cdawson return
\* (zero, NaN) on the imaginary axis and (NaN, NaN) elsewhere.
C8_NaN ==
    /\ Returned("cerf") /\ isnan(x)
       => /\ isnan(ret.re)
          /\ IF Eq(y, Zero(1)) THEN ret.im.k = "zero" ELSE isnan(ret.im)
    /\ Returned("cdawson") /\ isnan(y)
       => /\ isnan(ret.im)
          /\ IF Eq(x, Zero(1)) THEN ret.re.k = "zero" ELSE isnan(ret.re)

C8_Witness ==
    /\ Returned("cdawson") /\ isnan(y) /\ x = Zero(-1)
    /\ ret.branch = "imag_axis" /\ ret.re = Zero(-1) /\ isnan(ret.im)

\* C9 as stated: at x = 100, for y = 0 and for y = 1e-4, cdawson takes the
\* x^2 > 1600 continued-fraction regime of its real-axis-adjacent branch.
C9_Original ==
    Returned("cdawson") /\ x = Dec(1, 2) /\ y \in {Zero(1), Dec(1, -4)}
    => ret.branch = "realaxis_cf6"

\* C9, amended: at x = 100, cdawson takes the real-axis return
\* (spi2 * im_w_of_x(x), -y) for y = 0 and the direct formula
\* exp(-z^2) - w(z) for y = 1e-4, where |2xy| = 0.02 is not below 0.005;
\* it takes the x^2 > 1600 continued-fraction regime exactly for
\* 0 < |y| < 2.5e-5, e.g. for y = 1e-5.
C9_Regime ==
    Returned("cdawson") /\ x = Dec(1, 2)
    => /\ y = Zero(1) => ret.branch = "real_axis"
       /\ y = Dec(1, -4) => ret.branch = "direct_pos"
       /\ y = Dec(1, -5) => ret.branch = "realaxis_cf6"
       /\ ret.branch = "realaxis_cf6"
          <=> ~Eq(y, Zero(1)) /\ Lt(fabs(y), c25e_6)

C9_Witness ==
    /\ Returned("cdawson") /\ x = Dec(1, 2) /\ y = Dec(1, -5)
    /\ ret.branch = "realaxis_cf6" /\ ret.kern = <<>>

\* C10: for t # 0, erfi(t) is +Inf if t*t > 720 and t > 0, -Inf if
\* t*t > 720 and t < 0, and exp(t*t) * im_w_of_x(t) otherwise, the product
\* being evaluated only then; cerf(0 + it) is (the zero of the argument,
\* erfi(t)) and cerfc(0 + it) is (1, -erfi(t)).
C10_ImagAxis ==
    /\ Returned("erfi") /\ ~Eq(x, Zero(1))
       => IF Gt(Mul(x, x), c720)
          THEN /\ ret.re = (IF Gt(x, Zero(1)) THEN Inf ELSE Neg(Inf))
               /\ ret.exps = {} /\ ret.kern = <<>>
          ELSE /\ ret.re = Mul(pnfft_exp(Mul(x, x)), im_w_of_x(x))
               /\ ret.exps = {Mul(x, x)}
    /\ Returned("cerf") /\ Eq(x, Zero(1)) /\ ~Eq(y, Zero(1))
       => /\ ret.re = x
          /\ erfiFired(y) # {}
          /\ \A b \in erfiFired(y) : ret.im = erfiValue(b, y).re
    /\ Returned("cerfc") /\ Eq(x, Zero(1)) /\ ~Eq(y, Zero(1))
       => /\ ret.re = One
          /\ erfiFired(y) # {}
          /\ \A b \in erfiFired(y) : ret.im = Neg(erfiValue(b, y).re)

C10_Witness ==
    /\ Returned("cerfc") /\ x = Zero(-1) /\ y = Neg(Dec(27, 0))
    /\ ret.re = One /\ ret.im = Inf
    /\ erfiValue("limit", y).re = Neg(Inf)

\* |2xy|, the magnitude of Im(z^2).
Abs2xy == fabs(Mul(Mul(Two, x), y))

\* The two Taylor regions of cerf, as regions of the plane.
InTaylor == Lt(fabs(x), c8e_2) /\ Lt(fabs(y), c1e_2)

InTaylorErfi == Lt(fabs(x), c5e_3) /\ Lt(Abs2xy, c5e_3)

\* C11: off both axes and without NaN, cerf returns from: the underflow
\* shortcut (+1 for x >= 0, -1 for x < 0, imaginary part 0) iff
\* (y-x)(x+y) < -750; else the 5-term Taylor series iff |x| < 0.08 and
\* |y| < 0.01; else the near-imaginary-axis expansion iff |x| < 0.005 and
\* |2xy| < 0.005; else the mirror formula, w(-y + ix) for x >= 0 and
\* w(y - ix) for x < 0.  The tests are strict (an argument on a threshold
\* takes the later branch), and the underflow region meets neither Taylor
\* region.
C11_Branch ==
    /\ InCall("cerf")
    /\ ~Eq(x, Zero(1)) /\ ~Eq(y, Zero(1)) /\ ~isnan(x) /\ ~isnan(y)
    => LET under == Lt(Mul(Sub(y, x), Add(x, y)), Neg(c750))
           want  == IF under THEN "underflow"
                    ELSE IF InTaylor THEN "taylor"
                    ELSE IF InTaylorErfi THEN "taylor_erfi"
                    ELSE IF Ge(x, Zero(1)) THEN "mirror_pos"
                    ELSE "mirror_neg"
       IN  /\ cerfFired(x, y) = {want}
           /\ under => ~InTaylor /\ ~InTaylorErfi
           /\ fabs(x) = c8e_2 => want \notin {"taylor", "taylor_erfi"}
           /\ fabs(y) = c1e_2 => want # "taylor"
           /\ fabs(x) = c5e_3 \/ Abs2xy = c5e_3 => want # "taylor_erfi"
           /\ pc = "returned"
              => /\ ret.branch = want
                 /\ want = "underflow"
                    => /\ ret.re = (IF Ge(x, Zero(1)) THEN One ELSE Neg(One))
                       /\ ret.im = Zero(1)
                 /\ want = "mirror_pos"
                    => ret.kern = <<Kernel("w_of_z", <<Neg(y), x>>)>>
                 /\ want = "mirror_neg"
                    => ret.kern = <<Kernel("w_of_z", <<y, Neg(x)>>)>>
                 /\ want \in {"taylor", "underflow"} => ret.kern = <<>>

\* |2xy| exactly 0.005 with |x| < 0.005: past the near-axis expansion.
C11_Witness ==
    /\ Returned("cerf") /\ x = Neg(Dec(25, -4)) /\ y = One
    /\ Abs2xy = c5e_3
    /\ ret.branch = "mirror_neg"

\* a <= b as C compares.
Le(a, b) == Lt(a, b) \/ Eq(a, b)

\* C12: off both axes and without NaN, cdawson returns from: the Taylor
\* series at the origin iff |y| < 0.005 and |x| < 0.005; else the branch
\* next to the real axis iff |y| < 0.005 and |2xy| < 0.005; else the direct
\* formula, exp(-z^2) - w(z) for y >= 0 and w(-z) - exp(-z^2) for y < 0.
\* Next to the real axis exactly one regime is taken: x^2 <= 1600 (Taylor
\* series in y around D = dawson(x), the only one to call im_w_of_x),
\* 1600 < x^2 <= 2.5e15 (6-term continued fraction), x^2 > 2.5e15 (1- and
\* 2-term continued fractions).
C12_Branch ==
    /\ InCall("cdawson")
    /\ ~Eq(x, Zero(1)) /\ ~Eq(y, Zero(1)) /\ ~isnan(x) /\ ~isnan(y)
    => LET x2     == Mul(x, x)
           origin == Lt(fabs(y), c5e_3) /\ Lt(fabs(x), c5e_3)
           axis   == Lt(fabs(y), c5e_3) /\ Lt(Abs2xy, c5e_3)
           regime == IF Le(x2, c1600) THEN "realaxis_D"
                     ELSE IF Le(x2, Dec(25, 14)) THEN "realaxis_cf6"
                     ELSE "realaxis_cf1"
           want   == IF origin THEN "taylor"
                     ELSE IF axis THEN regime
                     ELSE IF Ge(y, Zero(1)) THEN "direct_pos"
                     ELSE "direct_neg"
           regimes == {"realaxis_D", "realaxis_cf6", "realaxis_cf1"}
       IN  /\ cdawsonFired(x, y) = {want}
           /\ ~origin /\ axis => Cardinality(cdawsonFired(x, y) \cap regimes) = 1
           /\ pc = "returned"
              => /\ ret.branch = want
                 /\ want = "realaxis_D"
                    => ret.kern = <<Kernel("im_w_of_x", <<x>>)>>
                 /\ want \in {"taylor", "realaxis_cf6", "realaxis_cf1"}
                    => ret.kern = <<>>
                 /\ want = "direct_pos"
                    => /\ ret.kern = <<Kernel("w_of_z", <<x, y>>)>>
                       /\ ret.exps = {Mul(Sub(y, x), Add(x, y))}
                 /\ want = "direct_neg"
                    => /\ ret.kern = <<Kernel("w_of_z", <<Neg(x), Neg(y)>>)>>
                       /\ ret.exps = {Mul(Sub(y, x), Add(x, y))}

\* x^2 exactly 2.5e15: still the 6-term continued fraction.
C12_Witness ==
    /\ Returned("cdawson") /\ x = Dec(5, 7) /\ y = Neg(Dec(1, -11))
    /\ Mul(x, x) = Dec(25, 14)
    /\ ret.branch = "realaxis_cf6"

\* C13: cerfi agrees with erfi on the real axis: for every x and for
\* y0 = +0 or -0, cerfi(x + i y0) has the real part erfi(x) (+-Inf by the
\* sign of x if x*x > 720, else exp(x*x) * im_w_of_x(x), nothing else being
\* evaluated) and as imaginary part the zero y0, sign included.
C13_RealAxis ==
    Returned("cerfi") /\ y \in {Zero(1), Zero(-1)}
    => /\ Cardinality(erfiFired(x)) = 1
       /\ \A b \in erfiFired(x) :
             /\ ret.re = erfiValue(b, x).re
             /\ ~Eq(x, Zero(1))
                => /\ ret.exps = erfiValue(b, x).exps
                   /\ ret.kern = erfiValue(b, x).kern
       /\ IF Gt(Mul(x, x), c720)
          THEN ret.re = (IF Gt(x, Zero(1)) THEN Inf ELSE Neg(Inf))
          ELSE ret.re = Mul(pnfft_exp(Mul(x, x)), im_w_of_x(x))
       /\ ret.im = y

\* x*x = 784 > 720 on the real axis, y0 = -0: cerf is called at +0 - 28i.
C13_Witness ==
    /\ Returned("cerfi") /\ x = Neg(Dec(28, 0)) /\ y = Zero(-1)
    /\ cerfFired(Zero(1), x) = {"imag_axis"}
    /\ ret.re = Neg(Inf) /\ ret.im = Zero(-1)

\* C14: in the delta case of voigt (|sigma| == 0 and |gamma| == 0) the
\* result is +Inf when x compares equal to zero (+0 or -0) and 0 for every
\* other x, NaN and +-Inf included, so that a NaN x does not reach the
\* result; in the three other cases a NaN x gives NaN.
C14_Delta ==
    Returned("voigt")
    => LET delta == Eq(fabs(sigma), Zero(1)) /\ Eq(fabs(gamma), Zero(1)) IN
       /\ delta <=> ret.branch = "delta"
       /\ delta
          => /\ ret.re = Inf <=> x \in {Zero(1), Zero(-1)}
             /\ x \notin {Zero(1), Zero(-1)} => ret.re = Zero(1)
             /\ ~isnan(ret.re)
       /\ ~delta /\ isnan(x) => isnan(ret.re)

C14_Witness ==
    /\ Returned("voigt") /\ isnan(x) /\ sigma = Zero(-1) /\ gamma = Zero(1)
    /\ ret.branch = "delta" /\ ret.re = Zero(1)

====
